---------------------------- MODULE Spec2Model ----------------------------
(* Model of src/main.rs: points of y^2 = x^3 + a*x + b over Z/p, the      *)
(* modular inverse, the addition law, the brute-force enumeration and the  *)
(* driver that doubles a base point and hands both lists to the renderer.  *)
(* Integers are i64 in the source; with p <= 599 every intermediate value  *)
(* stays below 2^40, so no operation of the model can overflow.            *)
EXTENDS Integers, Sequences, FiniteSets

VARIABLES a, b, p,        \* curve parameters (main.rs:108-110)
          pc,             \* position of the program
          x,              \* outer loop variable of find_points
          points,         \* Vec<Point> built by find_points
          point, k, steps,\* doubling loop of EllipticCurveApp::new
          lhs, rhs, sum,  \* operands and result of the last addition
          inv,            \* mod_inverse call of the last addition, if any
          drawn,          \* circles painted by the last update
          raw, made       \* raw inputs and result of the last Point::new

vars == <<a, b, p, pc, x, points, point, k, steps, lhs, rhs, sum, inv,
          drawn, raw, made>>

(* ------------------------------ bounds -------------------------------- *)
MaxPrime == 7
MaxCoef == 1
MaxRaw == 8

(* ------------------------- program constants -------------------------- *)
DriverP == 599
DriverA == 1
DriverB == 1
BaseX == 5
BaseY == 1
LastStep == 20

(* --------------------------- i64 arithmetic --------------------------- *)
Abs(n) == IF n >= 0 THEN n ELSE -n

\* Rust's % : remainder of the truncated division, sign of the dividend
RustRem(n, m) == IF n >= 0 THEN n % Abs(m) ELSE -((-n) % Abs(m))

\* Rust's / : quotient truncated toward zero
RustDiv(n, m) ==
    IF (n >= 0) = (m >= 0) THEN Abs(n) \div Abs(m) ELSE -(Abs(n) \div Abs(m))

(* ------------------------------- Option ------------------------------- *)
None == <<>>
Some(v) == <<v>>
unwrap(o) == o[1]

(* -------------------------------- Point ------------------------------- *)
new(xr, yr, ca, cb, cp) ==
    [x |-> Some(RustRem(xr, cp)), y |-> Some(RustRem(yr, cp)),
     a |-> ca, b |-> cb, p |-> cp]

infinity(ca, cb, cp) == [x |-> None, y |-> None, a |-> ca, b |-> cb, p |-> cp]

RECURSIVE extended_gcd(_, _)
extended_gcd(n, m) ==
    IF n = 0 THEN <<m, 0, 1>>
    ELSE LET r == extended_gcd(RustRem(m, n), n)
         IN  <<r[1], r[3] - RustDiv(m, n) * r[2], r[2]>>

mod_inverse(n, m) == RustRem(RustRem(extended_gcd(n, m)[2], m) + m, m)

(* ------------------------------ Add::add ------------------------------ *)
\* line 68 with the sum of the ordinates left unreduced
vertical_unreduced(x1, y1, x2, y2, cp) == x1 = x2 /\ y1 + y2 = 0

\* line 68: the two affine operands lie on a vertical line
vertical(x1, y1, x2, y2, cp) == x1 = x2 /\ RustRem(y1 + y2, cp) = 0

\* lines 73-77: the value handed to mod_inverse
divisor(x1, y1, x2, y2) == IF x1 = x2 /\ y1 = y2 THEN 2 * y1 ELSE x2 - x1

\* lines 73-77: the value multiplied by the inverse
numerator(x1, y1, x2, y2, ca) ==
    IF x1 = x2 /\ y1 = y2 THEN 3 * x1 * x1 + ca ELSE y2 - y1

\* lines 79-80 with the bare remainder, without `+ p) % p`
normalize_rem_only(v, cp) == RustRem(v, cp)

\* lines 79-80: reduction of a coordinate into [0, p)
normalize(v, cp) == RustRem(RustRem(v, cp) + cp, cp)

\* lines 62-81: both operands affine; out is the returned point, inv the
\* mod_inverse call made on the way (argument, result), None if none
add_affine(self, other) ==
    LET x1 == unwrap(self.x)
        y1 == unwrap(self.y)
        x2 == unwrap(other.x)
        y2 == unwrap(other.y)
        cp == self.p
    IN  IF vertical(x1, y1, x2, y2, cp)
        THEN [out |-> infinity(self.a, self.b, cp), inv |-> None]
        ELSE LET d == divisor(x1, y1, x2, y2)
                 r == mod_inverse(d, cp)
                 lambda == RustRem(numerator(x1, y1, x2, y2, self.a) * r, cp)
                 x3 == normalize(lambda * lambda - x1 - x2, cp)
                 y3 == normalize(lambda * (x1 - x3) - y1, cp)
             IN  [out |-> new(x3, y3, self.a, self.b, cp),
                  inv |-> <<d, r>>]

\* lines 54-82 with the left operand returned when it is infinity
add_traced_self(self, other) ==
    IF self.x = None THEN [out |-> self, inv |-> None]
    ELSE IF other.x = None THEN [out |-> self, inv |-> None]
    ELSE add_affine(self, other)

\* lines 54-82
add_traced(self, other) ==
    IF self.x = None THEN [out |-> other, inv |-> None]
    ELSE IF other.x = None THEN [out |-> self, inv |-> None]
    ELSE add_affine(self, other)

add(self, other) == add_traced(self, other).out

(* ----------------------------- find_points ---------------------------- *)
\* lines 89-94 with the inner loop running over 0..=p
find_points_row_inclusive(xv, ca, cb, cp) ==
    LET rhsv == RustRem(xv * xv * xv + ca * xv + cb, cp)
        ys == [i \in 1..(cp + 1) |-> i - 1]
        hits == SelectSeq(ys, LAMBDA yv : RustRem(yv * yv, cp) = rhsv)
    IN  [i \in 1..Len(hits) |-> new(xv, hits[i], ca, cb, cp)]

\* lines 89-94: one pass of the outer loop, the whole inner loop included
find_points_row(xv, ca, cb, cp) ==
    LET rhsv == RustRem(xv * xv * xv + ca * xv + cb, cp)
        ys == [i \in 1..cp |-> i - 1]
        hits == SelectSeq(ys, LAMBDA yv : RustRem(yv * yv, cp) = rhsv)
    IN  [i \in 1..Len(hits) |-> new(xv, hits[i], ca, cb, cp)]

(* ------------------------------ renderer ------------------------------ *)
\* lines 151-152 and 161-162: the assertions on an affine point
in_range(pt, cp) ==
    /\ unwrap(pt.x) >= 0 /\ unwrap(pt.x) < cp
    /\ unwrap(pt.y) >= 0 /\ unwrap(pt.y) < cp

affine(s) == SelectSeq(s, LAMBDA pt : pt.x # None /\ pt.y # None)

Range(s) == {s[i] : i \in 1..Len(s)}

(* ------------------------------- states ------------------------------- *)
IsPrime(n) == n >= 2 /\ \A d \in 2..(n - 1) : n % d # 0
Primes == {n \in 2..MaxPrime : IsPrime(n)}
Coefs == (-MaxCoef)..MaxCoef
Raws == (-MaxRaw)..MaxRaw

Start(ca, cb, cp) ==
    /\ a = ca /\ b = cb /\ p = cp
    /\ pc = "find_points"
    /\ x = 0
    /\ points = <<>>
    /\ point = new(BaseX, BaseY, ca, cb, cp)
    /\ k = 0
    /\ steps = <<>>
    /\ lhs = infinity(ca, cb, cp)
    /\ rhs = infinity(ca, cb, cp)
    /\ sum = infinity(ca, cb, cp)
    /\ inv = None
    /\ drawn = 0
    /\ raw = <<0, 0>>
    /\ made = new(0, 0, ca, cb, cp)

Init == \E ca \in Coefs, cb \in Coefs, cp \in Primes : Start(ca, cb, cp)

DriverInit == Start(DriverA, DriverB, DriverP)

CtorInit == \E cp \in (1..MaxPrime) \cup {DriverP} : Start(DriverA, DriverB, cp)

(* ------------------------------- actions ------------------------------ *)
\* find_points, lines 88-96: one iteration of `for x in 0..p`
FindPointsRow ==
    /\ pc = "find_points"
    /\ x < p
    /\ points' = points \o find_points_row(x, a, b, p)
    /\ x' = x + 1
    /\ pc' = IF x + 1 < p THEN "find_points" ELSE "steps"
    /\ UNCHANGED <<a, b, p, point, k, steps, lhs, rhs, sum, inv, drawn,
                   raw, made>>

\* EllipticCurveApp::new, lines 115-118: one iteration of `for _k in 0..=20`
DoubleStep ==
    /\ pc = "steps"
    /\ k <= LastStep
    /\ LET r == add_traced(point, point)
       IN  /\ point' = r.out
           /\ steps' = Append(steps, r.out)
           /\ lhs' = point
           /\ rhs' = point
           /\ sum' = r.out
           /\ inv' = r.inv
    /\ k' = k + 1
    /\ pc' = IF k + 1 <= LastStep THEN "steps" ELSE "run"
    /\ UNCHANGED <<a, b, p, x, points, drawn, raw, made>>

\* the points an addition may start from
Pool == Range(points) \cup {infinity(a, b, p), new(BaseX, BaseY, a, b, p)}

\* Add::add on two points obtained so far
AddAny ==
    /\ pc = "run"
    /\ \E s \in Pool \cup {sum}, o \in Pool \cup {sum} :
         LET r == add_traced(s, o)
         IN  /\ lhs' = s
             /\ rhs' = o
             /\ sum' = r.out
             /\ inv' = r.inv
    /\ UNCHANGED <<a, b, p, pc, x, points, point, k, steps, drawn, raw, made>>

\* EllipticCurveApp::update, lines 149-172: the two drawing loops
Update ==
    /\ pc = "run"
    /\ LET shown == affine(points) \o affine(steps)
       IN  IF \A i \in 1..Len(shown) : in_range(shown[i], p)
           THEN /\ drawn' = Len(shown)
                /\ pc' = pc
           ELSE /\ drawn' = drawn
                /\ pc' = "panicked"
    /\ UNCHANGED <<a, b, p, x, points, point, k, steps, lhs, rhs, sum, inv,
                   raw, made>>

\* Point::new on raw coordinates
Construct ==
    /\ \E xr \in Raws, yr \in Raws :
         /\ raw' = <<xr, yr>>
         /\ made' = new(xr, yr, a, b, p)
    /\ UNCHANGED <<a, b, p, pc, x, points, point, k, steps, lhs, rhs, sum,
                   inv, drawn>>

Next == FindPointsRow \/ DoubleStep \/ AddAny \/ Update

Spec == Init /\ [][Next]_vars

DriverNext == FindPointsRow \/ DoubleStep \/ Update

DriverSpec == DriverInit /\ [][DriverNext]_vars

CtorNext == Construct

CtorSpec == CtorInit /\ [][CtorNext]_vars

(* ------------------------------ properties ---------------------------- *)
\* pt is the point at infinity or satisfies y^2 = x^3 + a*x + b modulo p
on_curve(pt) ==
    \/ pt.x = None
    \/ LET u == unwrap(pt.x)
           v == unwrap(pt.y)
       IN  (v * v - (u * u * u + pt.a * u + pt.b)) % pt.p = 0

\* the affine solutions of the curve equation over [0, p) x [0, p)
Solutions ==
    {s \in (0..(p - 1)) \X (0..(p - 1)) :
        (s[2] * s[2] - (s[1] * s[1] * s[1] + a * s[1] + b)) % p = 0}

Coordinates(s) == {<<unwrap(pt.x), unwrap(pt.y)>> : pt \in Range(s)}

Enumerated(pt) == pc = "run" /\ pt \in Range(points)

EnumeratedOrInfinity(pt) == Enumerated(pt) \/ (pc = "run" /\ pt.x = None)

LexLess(s, t) ==
    \/ unwrap(s.x) < unwrap(t.x)
    \/ unwrap(s.x) = unwrap(t.x) /\ unwrap(s.y) < unwrap(t.y)

\* C1: whenever the addition law calls mod_inverse(d, p) with p prime and d
\* not a multiple of p, the result r lies in [0, p) and d * r is congruent
\* to 1 modulo p.
C1_InverseIsInverse ==
    (inv # None /\ inv[1] % p # 0)
        => (inv[2] \in 0..(p - 1) /\ (inv[1] * inv[2]) % p = 1)

\* C2: the sum of two points returned by find_points is the point at
\* infinity or an affine point that satisfies the curve equation modulo p.
C2_Closure ==
    (Enumerated(lhs) /\ Enumerated(rhs)) => on_curve(sum)

\* C3: for operands that are infinity or returned by find_points, P + Q
\* equals Q + P under the derived equality of Point.
C3_Commutative ==
    (EnumeratedOrInfinity(lhs) /\ EnumeratedOrInfinity(rhs))
        => sum = add(rhs, lhs)

\* C4: once find_points has returned, the coordinates of the returned points
\* are exactly the pairs of [0, p) x [0, p) that solve the curve equation.
C4_ExactlySolutions ==
    pc # "find_points" => Coordinates(points) = Solutions

\* C5: the point built by Point::new from raw x, y has both coordinates in
\* [0, p), congruent to x and y modulo p.
C5_Normalized ==
    /\ unwrap(made.x) \in 0..(p - 1)
    /\ unwrap(made.y) \in 0..(p - 1)
    /\ (unwrap(made.x) - raw[1]) % p = 0
    /\ (unwrap(made.y) - raw[2]) % p = 0

\* C6: every affine point of the point list, of the step list and every
\* operand and result of an addition has 0 <= x < p and 0 <= y < p, and the
\* renderer's assertions never fail.
C6_InRange ==
    /\ pc # "panicked"
    /\ \A pt \in Range(points) \cup Range(steps) \cup {point, lhs, rhs, sum} :
         pt.x # None =>
            /\ unwrap(pt.x) \in 0..(p - 1)
            /\ unwrap(pt.y) \in 0..(p - 1)

C6_Witness ==
    /\ pc = "run"
    /\ drawn > 0
    /\ Len(steps) = LastStep + 1
    /\ lhs \notin Pool
    /\ lhs.x # None
    /\ inv # None
    /\ sum.x # None

\* C7: the sequence built by find_points is strictly increasing in the
\* lexicographic order on (x, y), hence without duplicates.
C7_StrictlySorted ==
    \A i \in 1..Len(points) : \A j \in (i + 1)..Len(points) :
        LexLess(points[i], points[j])

C7_Witness ==
    /\ pc = "run"
    /\ \E i \in 1..(Len(points) - 2) :
         /\ unwrap(points[i].x) = unwrap(points[i + 1].x)
         /\ unwrap(points[i + 1].x) < unwrap(points[i + 2].x)

\* C8: an addition with the point at infinity as one operand returns the
\* other operand unchanged.
C8_Identity ==
    /\ rhs.x = None => sum = lhs
    /\ lhs.x = None => sum = rhs

C8_Witness ==
    /\ pc = "run"
    /\ lhs.x = None
    /\ rhs.x # None
    /\ sum = rhs

\* C9: adding two operands that are infinity or returned by find_points
\* never calls mod_inverse with an argument congruent to 0 modulo p.
C9_NoZeroDivisor ==
    (EnumeratedOrInfinity(lhs) /\ EnumeratedOrInfinity(rhs) /\ inv # None)
        => inv[1] % p # 0

C9_Witness ==
    /\ Enumerated(lhs)
    /\ Enumerated(rhs)
    /\ unwrap(lhs.x) = unwrap(rhs.x)
    /\ inv # None
    /\ inv[1] = 2 * unwrap(lhs.y)

\* C10: in the driver's run, once the doubling loop has pushed a step, the
\* base point and every point of the step sequence is infinity or satisfies
\* y^2 = x^3 + x + 1 modulo 599.
C10_StepsOnCurve ==
    Len(steps) > 0 =>
        /\ on_curve(new(BaseX, BaseY, a, b, p))
        /\ \A i \in 1..Len(steps) : on_curve(steps[i])

=============================================================================
